---- MODULE Spec2Model ----
(***************************************************************************)
(* Model of the resume layout engine of resumeiq:                          *)
(* ResumeEnhancerService.to_docx (backend/services/resume_enhancer.py).    *)
(*                                                                         *)
(* A text is a sequence of characters; a character is a one-element token  *)
(* (a string).  Characters outside ASCII are written by their code point,  *)
(* e.g. "U+2022" for the bullet glyph.                                     *)
(***************************************************************************)
EXTENDS Integers, Sequences, FiniteSets, TLC

(***************************************************************************)
(* Bounds of the model.                                                    *)
(***************************************************************************)
\* greatest number of lines of a generated input text
MaxLines == 3
\* greatest number of lines of the first text of a pair of conversions
MaxPairLines == 2
\* greatest number of lines that follow the shared prefix in the second text
MaxSuffix == 1

\* most lines of a generated text under the fair specification
MaxFairLines == 2

(***************************************************************************)
(* Characters.                                                             *)
(***************************************************************************)
NL == "\n"

\* the characters str.strip()/str.rstrip() remove and the regex class \s
Whitespace == {" ", "\t", "\r", "\n"}

\* the regex class \d
Digits == {"0", "1", "2", "3", "4", "5", "6", "7", "8", "9"}

UpperLetters ==
    <<"A", "B", "C", "D", "E", "F", "G", "H", "I", "J", "K", "L", "M",
      "N", "O", "P", "Q", "R", "S", "T", "U", "V", "W", "X", "Y", "Z">>

LowerLetters ==
    <<"a", "b", "c", "d", "e", "f", "g", "h", "i", "j", "k", "l", "m",
      "n", "o", "p", "q", "r", "s", "t", "u", "v", "w", "x", "y", "z">>

IsUpper(c) == \E k \in 1..26 : UpperLetters[k] = c

IsLower(c) == \E k \in 1..26 : LowerLetters[k] = c

\* the regex class [A-Za-z]
IsAsciiLetter(c) == IsUpper(c) \/ IsLower(c)

ToLower(c) ==
    IF IsUpper(c) THEN LowerLetters[CHOOSE k \in 1..26 : UpperLetters[k] = c]
    ELSE c

ToUpper(c) ==
    IF IsLower(c) THEN UpperLetters[CHOOSE k \in 1..26 : LowerLetters[k] = c]
    ELSE c

\* str.lower()
Lower(s) == [k \in 1..Len(s) |-> ToLower(s[k])]

\* str.upper()
Upper(s) == [k \in 1..Len(s) |-> ToUpper(s[k])]

\* the characters _is_bullet accepts at the start of the stripped line
BulletStart == {"U+2022", "-", "U+2013", "*", "U+00B7", "U+25AA", "U+25E6", "U+25CB"}

\* the characters after the leading spaces in the second pattern of _is_bullet
IndentedBulletStart == {"U+2022", "-", "U+2013", "*"}

\* the class [\s U+2022 - U+2013 * U+00B7 U+25AA U+25E6 U+25CB] of _clean_bullet
CleanBulletClass == Whitespace \cup BulletStart

\* the class [| U+2022 U+00B7 U+2726] of _add_contact
ContactSeparators == {"|", "U+2022", "U+00B7", "U+2726"}

\* the class [\d\s\-().] of the phone pattern of _is_contact_line
PhoneClass == Digits \cup Whitespace \cup {"-", "(", ")", "."}

(***************************************************************************)
(* String utilities of Python, as the code uses them.                      *)
(***************************************************************************)
\* sub in s
Contains(s, sub) ==
    \E p \in 1..(Len(s) - Len(sub) + 1) : SubSeq(s, p, p + Len(sub) - 1) = sub

\* index of the first character that is not whitespace, Len(s) + 1 when none
FirstNonWs(s) ==
    IF \E p \in 1..Len(s) : s[p] \notin Whitespace
    THEN CHOOSE p \in 1..Len(s) :
            /\ s[p] \notin Whitespace
            /\ \A q \in 1..(p - 1) : s[q] \in Whitespace
    ELSE Len(s) + 1

\* index of the last character that is not whitespace, 0 when none
LastNonWs(s) ==
    IF \E p \in 1..Len(s) : s[p] \notin Whitespace
    THEN CHOOSE p \in 1..Len(s) :
            /\ s[p] \notin Whitespace
            /\ \A q \in (p + 1)..Len(s) : s[q] \in Whitespace
    ELSE 0

\* str.rstrip()
RStrip(s) == SubSeq(s, 1, LastNonWs(s))

\* str.strip()
Strip(s) == SubSeq(s, FirstNonWs(s), LastNonWs(s))

\* str.split("\n"); split[p] is the list of the lines of t[p..]
SplitLines(t) ==
    LET split[p \in 1..(Len(t) + 1)] ==
            IF \E q \in p..Len(t) : t[q] = NL
            THEN LET q == CHOOSE q \in p..Len(t) :
                             /\ t[q] = NL
                             /\ \A r \in p..(q - 1) : t[r] # NL
                 IN  <<SubSeq(t, p, q - 1)>> \o split[q + 1]
            ELSE <<SubSeq(t, p, Len(t))>>
    IN  split[1]

RECURSIVE JoinLines(_)
\* "\n".join(ls)
JoinLines(ls) ==
    IF Len(ls) = 0 THEN <<>>
    ELSE IF Len(ls) = 1 THEN ls[1]
    ELSE ls[1] \o <<NL>> \o JoinLines(Tail(ls))

(***************************************************************************)
(* Input texts.                                                            *)
(***************************************************************************)
\* lines the generated input texts are made of: one or more for each test
\* of the classifier, also lines that pass several tests, with and without
\* whitespace around them
LinePool ==
    { <<>>,
      <<" ", "\t">>,
      <<" ", " ", "A", "l", " ">>,
      <<"a", "@", "b">>,
      <<"+", "1", " ", "5", "5", "5", "-", "0", "1", "0", "0">>,
      <<"G", "i", "t", "H", "u", "b">>,
      <<"S", "K", "I", "L", "L", "S">>,
      <<" ", " ", "U+2022", " ", "L", "e", "d", " ", "x">>,
      <<"A", "c", "m", "e", " ", "|", " ", "2", "0", "1", "9">>,
      <<"A", "B", "C", " ", "|", " ", "2", "0", "1", "9">>,
      <<"-", " ", "a", " ", "|", " ", "M", "a", "y">>,
      <<"*", " ", "A", "B", "C">>,
      <<"a", " ", "U+2022", " ", "b">>,
      <<"a", " ", "|", " ", "b">> }

\* the lines of the texts of a pair of conversions
PairLinePool ==
    { <<>>,
      <<"A", "l">>,
      <<"a", "@", "b">>,
      <<"S", "K", "I", "L", "L", "S">>,
      <<"-", " ", "x">>,
      <<"A", "c", "m", "e", " ", "|", " ", "2", "0", "1", "9">> }

\* the sequences of n1 to n2 lines of a pool
LineSeqs(pool, n1, n2) == UNION { [1..n -> pool] : n \in n1..n2 }

\* the resume of the scenario of the specification (9 lines)
ScenarioText ==
    <<"J", "a", "n", "e", " ", "D", "o", "e", "\n", "j", "a", "n", "e",
      "@", "e", "x", "a", "m", "p", "l", "e", ".", "c", "o", "m", " ", "|",
      " ", "(", "5", "5", "5", ")", " ", "1", "2", "3", "-", "4", "5", "6",
      "7", " ", "|", " ", "l", "i", "n", "k", "e", "d", "i", "n", ".", "c",
      "o", "m", "/", "i", "n", "/", "j", "a", "n", "e", "d", "o", "e",
      "\n", "\n", "S", "U", "M", "M", "A", "R", "Y", "\n", "R", "e", "s",
      "u", "l", "t", "s", "-", "d", "r", "i", "v", "e", "n", " ", "e", "n",
      "g", "i", "n", "e", "e", "r", ".", "\n", "\n", "E", "X", "P", "E",
      "R", "I", "E", "N", "C", "E", "\n", "A", "c", "m", "e", " ", "C",
      "o", "r", "p", " ", "|", " ", "S", "e", "n", "i", "o", "r", " ", "E",
      "n", "g", "i", "n", "e", "e", "r", " ", "|", " ", "2", "0", "1", "9",
      " ", "U+2013", " ", "P", "r", "e", "s", "e", "n", "t", "\n",
      "U+2022", " ", "L", "e", "d", " ", "m", "i", "g", "r", "a", "t", "i",
      "o", "n", " ", "o", "f", " ", "1", "2", " ", "s", "e", "r", "v", "i",
      "c", "e", "s">>

\* a resume whose lines after the name and the contact line pass several
\* tests of the classifier at once (8 lines)
PrecedenceText ==
    <<"A", "l", "\n", "S", "K", "I", "L", "L", "S", "\n", "a", "@", "b",
      "\n", "*", " ", "A", "B", "C", "\n",
      "A", "B", "C", " ", "|", " ", "2", "0", "1", "9", "\n", "-", " ",
      "a", " ", "|", " ", "M", "a", "y", "\n", "A", "c", "m", "e", " ",
      "|", " ", "2", "0", "1", "9", "\n", "a", " ", "|", " ", "b">>

\* "a", three blank lines, "b"
BlankRunText ==
    <<"a", "\n", "\n", "\n", "\n", "b">>

\* a resume with lines at and around the limits of the section-header test:
\* upper and mixed case, 45 and 46 characters, 2 and 3 letters (9 lines)
HeaderText ==
    <<"A", "l", "\n", "E", "X", "P", "E", "R", "I", "E", "N", "C", "E",
      "\n", "E", "x", "p", "e", "r", "i", "e", "n", "c", "e", "\n", "A",
      "A", "A", "A", "A", "A", "A", "A", "A", "A", "A", "A", "A", "A", "A",
      "A", "A", "A", "A", "A", "A", "A", "A", "A", "A", "A", "A", "A", "A",
      "A", "A", "A", "A", "A", "A", "A", "A", "A", "A", "A", "A", "A", "A",
      "A", "A", "\n", "A", "A", "A", "A", "A", "A", "A", "A", "A", "A",
      "A", "A", "A", "A", "A", "A", "A", "A", "A", "A", "A", "A", "A", "A",
      "A", "A", "A", "A", "A", "A", "A", "A", "A", "A", "A", "A", "A", "A",
      "A", "A", "A", "A", "A", "A", "A", "A", "\n", " ", " ", "B", "B",
      "B", "B", "B", "B", "B", "B", "B", "B", "B", "B", "B", "B", "B", "B",
      "B", "B", "B", "B", "B", "B", "B", "B", "B", "B", "B", "B", "B", "B",
      "B", "B", "B", "B", "B", "B", "B", "B", "B", "B", "B", "B", "B", "B",
      "B", "\n", "A", "B", "\n", "C", "+", "+", " ", "/", " ", "Q", "A",
      ":", " ", "3", "\n", "1", "2", " ", "3", "4">>

\* a resume with lines for the entry test after the name and the contact
\* line: one to three pipes, years in and out of 1900-2099, months (10 lines)
EntryText ==
    <<"A", "l", "\n", "a", "@", "b", "\n", "A", "c", "m", "e", " ", "C",
      "o", "r", "p", " ", "|", " ", "S", "e", "n", "i", "o", "r", " ", "E",
      "n", "g", "i", "n", "e", "e", "r", " ", "|", " ", "2", "0", "1", "9",
      " ", "U+2013", " ", "P", "r", "e", "s", "e", "n", "t", "\n", "a",
      " ", "|", " ", "b", " ", "|", " ", "c", " ", "|", " ", "2", "0", "1",
      "9", "\n", "x", "|", "M", "a", "y", "\n", "x", " ", "|", " ", "p",
      "R", "e", "S", "e", "N", "t", "\n", "a", " ", "|", " ", "1", "8",
      "9", "9", "\n", "a", " ", "|", " ", "2", "1", "0", "0", "\n", "M",
      "i", "t", " ", "2", "0", "2", "0", "\n", "|", " ", "1", "9", "9",
      "9", " ", "|">>

\* a resume with bullet lines after the name and the contact line (8 lines)
BulletText ==
    <<"A", "l", "\n", "a", "@", "b", "\n", " ", " ", "U+2022", " ", "L",
      "e", "d", " ", "m", "i", "g", "r", "a", "t", "i", "o", "n", " ", "o",
      "f", " ", "1", "2", " ", "s", "e", "r", "v", "i", "c", "e", "s",
      "\n", "-", " ", "-", " ", "a", "\n", "*", " ", "-", "\n", "U+2013",
      "x", "\n", "U+00B7", " ", "\t", "U+25AA", " ", "U+25E6", "U+25CB",
      " ", "y", " ", "-", " ", "z", "\n", "a", " ", "-", " ", "b">>

\* the texts a single conversion is run on
Inputs ==
    { JoinLines(ls) : ls \in LineSeqs(LinePool, 1, MaxLines) }
        \cup {ScenarioText, PrecedenceText, BlankRunText}
        \cup {HeaderText, EntryText, BulletText}

(***************************************************************************)
(* Line Normalizer.                                                        *)
(***************************************************************************)
\* not line.strip()
IsBlank(line) == Strip(line) = <<>>

RECURSIVE CleanLoop_DropBlank(_, _, _, _)
\* variant of CleanLoop: every blank line is dropped
CleanLoop_DropBlank(ls, k, prev_blank, cleaned) ==
    IF k > Len(ls) THEN cleaned
    ELSE IF IsBlank(ls[k])
         THEN CleanLoop_DropBlank(ls, k + 1, TRUE, cleaned)
         ELSE CleanLoop_DropBlank(ls, k + 1, FALSE, Append(cleaned, ls[k]))

RECURSIVE CleanLoop_ResetOnDrop(_, _, _, _)
\* variant of CleanLoop: prev_blank is cleared when a line is dropped
CleanLoop_ResetOnDrop(ls, k, prev_blank, cleaned) ==
    IF k > Len(ls) THEN cleaned
    ELSE LET is_blank == IsBlank(ls[k])
         IN  IF is_blank /\ prev_blank
             THEN CleanLoop_ResetOnDrop(ls, k + 1, FALSE, cleaned)
             ELSE CleanLoop_ResetOnDrop(ls, k + 1, is_blank, Append(cleaned, ls[k]))

RECURSIVE CleanLoop(_, _, _, _)
\* the for loop of _clean_lines, from the k-th line on
CleanLoop(ls, k, prev_blank, cleaned) ==
    IF k > Len(ls) THEN cleaned
    ELSE LET is_blank == IsBlank(ls[k])
         IN  IF is_blank /\ prev_blank
             THEN CleanLoop(ls, k + 1, prev_blank, cleaned)
             ELSE CleanLoop(ls, k + 1, is_blank, Append(cleaned, ls[k]))

\* variant of _clean_lines: prev_blank starts True
_clean_lines_PrevBlankTrue(ls) == CleanLoop(ls, 1, TRUE, <<>>)

_clean_lines(ls) == CleanLoop(ls, 1, FALSE, <<>>)

\* [l.rstrip() for l in resume_text.split("\n")]
RawLines(t) == LET ls == SplitLines(t) IN [k \in 1..Len(ls) |-> RStrip(ls[k])]

\* the first two statements on lines of to_docx: the normalized sequence
Normalize(t) == _clean_lines(RawLines(t))

(***************************************************************************)
(* Line classifiers.                                                       *)
(***************************************************************************)
\* re.search(r"\+?\d[\d\s\-().]{7,}", line)
HasPhone(line) ==
    \E p \in 1..Len(line) :
        /\ line[p] \in Digits
        /\ p + 7 <= Len(line)
        /\ \A q \in (p + 1)..(p + 7) : line[q] \in PhoneClass

\* variant of HasSeparator: the pattern has no pipe alternative
HasSeparator_NoPipe(line) ==
    \E p \in 1..(Len(line) - 2) :
        /\ line[p] \in Whitespace
        /\ line[p + 1] = "U+2022"
        /\ line[p + 2] \in Whitespace

\* re.search(r"\||\s U+2022 \s", line)
HasSeparator(line) ==
    \/ \E p \in 1..Len(line) : line[p] = "|"
    \/ \E p \in 1..(Len(line) - 2) :
        /\ line[p] \in Whitespace
        /\ line[p + 1] = "U+2022"
        /\ line[p + 2] \in Whitespace

_is_contact_line(line) ==
    LET low == Lower(line)
    IN  \/ Contains(line, <<"@">>)
        \/ HasPhone(line)
        \/ Contains(low, <<"l", "i", "n", "k", "e", "d", "i", "n">>)
        \/ Contains(low, <<"g", "i", "t", "h", "u", "b">>)
        \/ HasSeparator(line)

\* re.sub(r"[^A-Za-z]", "", stripped)
AlphaOnly(s) == SelectSeq(s, IsAsciiLetter)

\* variant of _is_section_header: a line of 45 characters is too long
_is_section_header_Under45(line) ==
    LET stripped == Strip(line)
        alpha_only == AlphaOnly(stripped)
    IN  IF stripped = <<>> \/ Len(stripped) >= 45 THEN FALSE
        ELSE IF alpha_only = <<>> THEN FALSE
        ELSE /\ \A k \in 1..Len(alpha_only) : IsUpper(alpha_only[k])
             /\ Len(alpha_only) >= 3

_is_section_header(line) ==
    LET stripped == Strip(line)
        alpha_only == AlphaOnly(stripped)
    IN  IF stripped = <<>> \/ Len(stripped) > 45 THEN FALSE
        ELSE IF alpha_only = <<>> THEN FALSE
        ELSE /\ \A k \in 1..Len(alpha_only) : IsUpper(alpha_only[k])
             /\ Len(alpha_only) >= 3

\* re.match(r"^\s{2,}[U+2022 \- U+2013 \*]", line)
IndentedBullet(line) ==
    LET f == FirstNonWs(line)
    IN  /\ f >= 3
        /\ f <= Len(line)
        /\ line[f] \in IndentedBulletStart

\* variant of _is_bullet: only the ASCII glyphs - and *
_is_bullet_AsciiOnly(line) ==
    LET stripped == Strip(line)
    IN  Len(stripped) > 0 /\ stripped[1] \in {"-", "*"}

_is_bullet(line) ==
    LET stripped == Strip(line)
    IN  \/ (Len(stripped) > 0 /\ stripped[1] \in BulletStart)
        \/ IndentedBullet(line)

\* the words of the date pattern of _is_entry_line, lower-cased
DateWords ==
    { <<"j", "a", "n">>, <<"f", "e", "b">>, <<"m", "a", "r">>, <<"a", "p", "r">>,
      <<"m", "a", "y">>, <<"j", "u", "n">>, <<"j", "u", "l">>, <<"a", "u", "g">>,
      <<"s", "e", "p">>, <<"o", "c", "t">>, <<"n", "o", "v">>, <<"d", "e", "c">>,
      <<"p", "r", "e", "s", "e", "n", "t">>, <<"c", "u", "r", "r", "e", "n", "t">> }

\* (19|20)\d{2}
HasYear(line) ==
    \E p \in 1..(Len(line) - 3) :
        /\ SubSeq(line, p, p + 1) \in { <<"1", "9">>, <<"2", "0">> }
        /\ line[p + 2] \in Digits
        /\ line[p + 3] \in Digits

\* the re.search of _is_entry_line, with re.IGNORECASE
HasDate(line) ==
    \/ HasYear(line)
    \/ \E w \in DateWords : Contains(Lower(line), w)

_is_entry_line(line) ==
    LET has_pipe == Contains(line, <<"|">>)
        has_date == HasDate(line)
    IN  has_pipe /\ has_date

(***************************************************************************)
(* Text utilities of the renderer.                                         *)
(***************************************************************************)
\* index of the first character outside the class of _clean_bullet
FirstNonBullet(s) ==
    IF \E p \in 1..Len(s) : s[p] \notin CleanBulletClass
    THEN CHOOSE p \in 1..Len(s) :
            /\ s[p] \notin CleanBulletClass
            /\ \A q \in 1..(p - 1) : s[q] \in CleanBulletClass
    ELSE Len(s) + 1

\* variant of _clean_bullet: only the first character is removed
_clean_bullet_FirstOnly(line) == SubSeq(line, 2, Len(line))

_clean_bullet(line) == Strip(SubSeq(line, FirstNonBullet(line), Len(line)))

\* index of the first character at or after p that is not whitespace
SkipWs(s, p) ==
    IF \E q \in p..Len(s) : s[q] \notin Whitespace
    THEN CHOOSE q \in p..Len(s) :
            /\ s[q] \notin Whitespace
            /\ \A r \in p..(q - 1) : s[r] \in Whitespace
    ELSE Len(s) + 1

\* re.sub(r"\s*[| U+2022 U+00B7 U+2726]\s*", "  |  ", s), from position p0
\* on; sub[p] is the substitution of s[p..]
SubSeparators(s, p0) ==
    LET sub[p \in 1..(Len(s) + 1)] ==
            IF p > Len(s) THEN <<>>
            ELSE LET q == SkipWs(s, p)
                 IN  IF q <= Len(s) /\ s[q] \in ContactSeparators
                     THEN <<" ", " ", "|", " ", " ">> \o sub[SkipWs(s, q + 1)]
                     ELSE <<s[p]>> \o sub[p + 1]
    IN  sub[p0]

\* true when a match of \s*\|\s* starts at position p of s
PipeAt(s, p) == SkipWs(s, p) <= Len(s) /\ s[SkipWs(s, p)] = "|"

\* re.split(r"\s*\|\s*", s, maxsplit=n0); split[p, n] is the list of the
\* pieces of s[p..] with at most n splits left
SplitPipes(s, n0) ==
    LET split[p \in 1..(Len(s) + 1), n \in 0..n0] ==
            IF n > 0 /\ \E q \in p..Len(s) : PipeAt(s, q)
            THEN LET q == CHOOSE q \in p..Len(s) :
                             /\ PipeAt(s, q)
                             /\ \A r \in p..(q - 1) : ~PipeAt(s, r)
                 IN  <<SubSeq(s, p, q - 1)>>
                         \o split[SkipWs(s, SkipWs(s, q) + 1), n - 1]
            ELSE <<SubSeq(s, p, Len(s))>>
    IN  split[1, n0]

(***************************************************************************)
(* Style Renderer: the paragraph each _add_* helper appends.  A paragraph  *)
(* is its role and the runs of text it holds.                              *)
(***************************************************************************)
Run(text, bold) == [text |-> text, bold |-> bold]

\* doc.add_paragraph() of the empty-line branch
BlankParagraph == <<>>

_add_name(text) == <<Run(Strip(text), TRUE)>>

_add_contact(text) == <<Run(SubSeparators(Strip(text), 1), FALSE)>>

_add_section_header(text) == <<Run(Strip(Upper(text)), TRUE)>>

RECURSIVE EntryRest(_, _)
\* the for loop over parts[1:] of _add_entry_line
EntryRest(parts, k) ==
    IF k > Len(parts) THEN <<>>
    ELSE <<Run(<<" ", " ", "|", " ", " ">>, FALSE), Run(Strip(parts[k]), FALSE)>>
            \o EntryRest(parts, k + 1)

\* variant of _add_entry_line: the line is split at up to three pipes
_add_entry_line_SplitAll(text) ==
    LET parts == SplitPipes(Strip(text), 3)
    IN  IF Len(parts) >= 2
        THEN <<Run(Strip(parts[1]), TRUE)>> \o EntryRest(parts, 2)
        ELSE <<Run(Strip(text), TRUE)>>

_add_entry_line(text) ==
    LET parts == SplitPipes(Strip(text), 2)
    IN  IF Len(parts) >= 2
        THEN <<Run(Strip(parts[1]), TRUE)>> \o EntryRest(parts, 2)
        ELSE <<Run(Strip(text), TRUE)>>

_add_bullet(text) == <<Run(text, FALSE)>>

_add_body_text(text) == <<Run(text, FALSE)>>

\* src, name_done and contact_done are history fields: the index of the line
\* and the values of the flags when the loop reached the line
Paragraph(role, runs, src, nd, cd) ==
    [role |-> role, runs |-> runs, src |-> src, name_done |-> nd, contact_done |-> cd]

Roles == {"Blank", "Name", "Contact", "SectionHeader", "Bullet", "Entry", "Body"}

(***************************************************************************)
(* File parser (backend/services/file_parser.py).  An upload is the text   *)
(* its bytes hold and whether a PDF or DOCX reader can open them; an       *)
(* exception is the name of its class, "none" when nothing is raised.      *)
(***************************************************************************)
\* ALLOWED
ALLOWED ==
    { <<".", "p", "d", "f">>,
      <<".", "d", "o", "c", "x">>,
      <<".", "d", "o", "c">>,
      <<".", "t", "x", "t">> }

\* the filenames of the uploads; the empty one stands for a missing name too
Filenames ==
    { <<"c", "v", ".", "p", "d", "f">>,
      <<"c", "v", ".", "P", "D", "F">>,
      <<"c", "v", ".", "d", "o", "c", "x">>,
      <<"c", "v", ".", "d", "o", "c">>,
      <<"c", "v", ".", "t", "x", "t">>,
      <<"a", ".", "t", "a", "r", ".", "t", "x", "t">>,
      <<"c", "v", ".", "e", "x", "e">>,
      <<"c", "v">>,
      <<".", "t", "x", "t">>,
      <<"c", "v", ".", "t", "x", "t", ".">>,
      <<"d", ".", "t", "x", "t", "/", "c", "v">>,
      <<>> }

\* the last component of a path
PathName(path) ==
    IF \E p \in 1..Len(path) : path[p] = "/"
    THEN LET p == CHOOSE p \in 1..Len(path) :
                     /\ path[p] = "/"
                     /\ \A q \in (p + 1)..Len(path) : path[q] # "/"
         IN  SubSeq(path, p + 1, Len(path))
    ELSE path

\* Path(filename).suffix: from the last dot of the name on, when that dot is
\* neither the first nor the last character of the name
Suffix(filename) ==
    LET name == PathName(filename)
    IN  IF \E p \in 2..(Len(name) - 1) : name[p] = "."
           /\ name[Len(name)] # "."
        THEN LET p == CHOOSE p \in 2..(Len(name) - 1) :
                         /\ name[p] = "."
                         /\ \A q \in (p + 1)..Len(name) : name[q] # "."
             IN  SubSeq(name, p, Len(name))
        ELSE <<>>

\* the uploads: readable text, text that is blank, bytes no reader opens
Uploads ==
    { [readable |-> TRUE,  text |-> <<" ", "A", "l", "\n", "\n", "a", "@", "b", "\n">>],
      [readable |-> TRUE,  text |-> <<" ", "\n", "\t">>],
      [readable |-> FALSE, text |-> <<"%", "P", "D", "F">>] }

Returned(text) == [raised |-> "none", value |-> text]

Raised(e) == [raised |-> e, value |-> <<>>]

\* PdfReader raises on bytes it cannot open; the pages are joined and stripped
_from_pdf(data) ==
    IF data.readable THEN Returned(Strip(data.text)) ELSE Raised("PdfReadError")

\* Document raises on bytes it cannot open; the paragraphs that are not
\* blank are joined and stripped
_from_docx(data) ==
    IF data.readable
    THEN LET ps == SplitLines(data.text)
             kept == SelectSeq(ps, LAMBDA para : Strip(para) # <<>>)
         IN  Returned(Strip(JoinLines(kept)))
    ELSE Raised("PackageNotFoundError")

\* bytes that are not UTF-8 are decoded as latin-1, which never fails
_from_txt(data) == Returned(Strip(data.text))

\* variant of extract_text: an exception of a reader is not wrapped
extract_text_NoWrap(file_bytes, filename) ==
    LET ext == Lower(Suffix(filename))
    IN  IF ext \notin ALLOWED THEN Raised("ValueError") @@ [parsed |-> FALSE]
        ELSE (IF ext = <<".", "p", "d", "f">> THEN _from_pdf(file_bytes)
              ELSE IF ext \in {<<".", "d", "o", "c", "x">>, <<".", "d", "o", "c">>} THEN _from_docx(file_bytes)
              ELSE _from_txt(file_bytes)) @@ [parsed |-> TRUE]

\* extract_text: what it returns or raises, and whether a reader was called
extract_text(file_bytes, filename) ==
    LET ext == Lower(Suffix(filename))
    IN  IF ext \notin ALLOWED THEN Raised("ValueError") @@ [parsed |-> FALSE]
        ELSE LET r == IF ext = <<".", "p", "d", "f">> THEN _from_pdf(file_bytes)
                      ELSE IF ext \in {<<".", "d", "o", "c", "x">>, <<".", "d", "o", "c">>} THEN _from_docx(file_bytes)
                      ELSE _from_txt(file_bytes)
             IN  (IF r.raised # "none" THEN Raised("ValueError") ELSE r)
                     @@ [parsed |-> TRUE]

(***************************************************************************)
(* State: the calls of to_docx on the one ResumeEnhancerService instance.  *)
(* Every variable of a call is a local of to_docx, one copy for each call; *)
(* the instance holds nothing a call writes to.  The routes analyze_resume *)
(* and enhance_resume serve one request after another against the          *)
(* analyses collection.                                                    *)
(***************************************************************************)
Calls == {1, 2}

VARIABLES
    pc,            \* where each call is: "idle", "start", "loop", "done"
    resume_text,   \* the argument of the call
    lines,         \* the normalized lines
    i,             \* index of the next line (from 0, as in the code)
    name_done,
    contact_done,
    doc,           \* the paragraphs appended to the document so far
    stage,         \* where the request handler is
    request,       \* the arguments of the request being served
    locals,        \* the locals the handler has assigned
    response,      \* what the handler returned or raised
    db,            \* the analyses collection, in insertion order
    trace,         \* the collaborators called for this request, in order
    served         \* how many requests have been received

docxVars == <<pc, resume_text, lines, i, name_done, contact_done, doc>>

routeVars == <<stage, request, locals, response, db, trace, served>>

vars == <<pc, resume_text, lines, i, name_done, contact_done, doc,
          stage, request, locals, response, db, trace, served>>

NoRequest == [route |-> "none"]

NoLocals == [analysis_id |-> 0]

NoResponse == [status_code |-> 0]

\* no request has been received
RoutesIdle ==
    /\ stage = "idle"
    /\ request = NoRequest
    /\ locals = NoLocals
    /\ response = NoResponse
    /\ db = <<>>
    /\ trace = <<>>
    /\ served = 0

\* the ways a call can be at its first statement on the text t, or not made
NoCall == [p |-> "idle", t |-> <<>>]

CallOn(t) == [p |-> "start", t |-> t]

InitWith(calls) ==
    /\ pc = [c \in Calls |-> calls[c].p]
    /\ resume_text = [c \in Calls |-> calls[c].t]
    /\ lines = [c \in Calls |-> <<>>]
    /\ i = [c \in Calls |-> 0]
    /\ name_done = [c \in Calls |-> FALSE]
    /\ contact_done = [c \in Calls |-> FALSE]
    /\ doc = [c \in Calls |-> <<>>]
    /\ RoutesIdle

\* one conversion
Init == \E t \in Inputs : InitWith(<<CallOn(t), NoCall>>)

\* the text of the second conversion of a pair: the first k lines of the
\* first text, then other lines
PairInputs ==
    { <<JoinLines(a), JoinLines(SubSeq(a, 1, k) \o s)>> :
        <<a, k, s>> \in { x \in LineSeqs(PairLinePool, 1, MaxPairLines)
                                  \X (0..MaxPairLines)
                                  \X LineSeqs(PairLinePool, 0, MaxSuffix) :
                            x[2] <= Len(x[1]) } }

\* two conversions
InitPair == \E ts \in PairInputs : InitWith(<<CallOn(ts[1]), CallOn(ts[2])>>)

\* variant of Line: the text of the line after the current one, when there
\* is one
Line_Ahead(c) ==
    IF i[c] + 2 <= Len(lines[c]) THEN Strip(lines[c][i[c] + 2])
    ELSE Strip(lines[c][i[c] + 1])

\* the line the loop looks at: lines[i].strip()
Line(c) == Strip(lines[c][i[c] + 1])

InLoop(c) == pc[c] = "loop" /\ i[c] < Len(lines[c])

\* doc.add_paragraph ...; i += 1
Emit(c, role, runs) ==
    /\ doc' = [doc EXCEPT ![c] = Append(@, Paragraph(role, runs, i[c], name_done[c], contact_done[c]))]
    /\ i' = [i EXCEPT ![c] = @ + 1]
    /\ UNCHANGED <<pc, resume_text, lines>>
    /\ UNCHANGED routeVars

\* to_docx up to the loop: a new document, the normalized lines, the flags
Start(c) ==
    /\ pc[c] = "start"
    /\ doc' = [doc EXCEPT ![c] = <<>>]
    /\ \E raw \in {RawLines(resume_text[c])} :
            lines' = [lines EXCEPT ![c] = _clean_lines(raw)]
    /\ i' = [i EXCEPT ![c] = 0]
    /\ name_done' = [name_done EXCEPT ![c] = FALSE]
    /\ contact_done' = [contact_done EXCEPT ![c] = FALSE]
    /\ pc' = [pc EXCEPT ![c] = "loop"]
    /\ UNCHANGED resume_text
    /\ UNCHANGED routeVars

\* variant of Branch: the bullet test is made before the section-header test
Branch_BulletFirst(line, nd, cd) ==
    IF line = <<>> THEN "Blank"
    ELSE IF ~nd THEN "Name"
    ELSE IF ~cd /\ _is_contact_line(line) THEN "Contact"
    ELSE IF _is_bullet(line) THEN "Bullet"
    ELSE IF _is_section_header(line) THEN "SectionHeader"
    ELSE IF _is_entry_line(line) THEN "Entry"
    ELSE "Body"

\* the branch of the loop body a trimmed line takes, given the two flags:
\* the chain of if statements, each ending in continue
Branch(line, nd, cd) ==
    IF line = <<>> THEN "Blank"
    ELSE IF ~nd THEN "Name"
    ELSE IF ~cd /\ _is_contact_line(line) THEN "Contact"
    ELSE IF _is_section_header(line) THEN "SectionHeader"
    ELSE IF _is_bullet(line) THEN "Bullet"
    ELSE IF _is_entry_line(line) THEN "Entry"
    ELSE "Body"

\* variant of Takes: the two flags are attributes of the shared service
\* instance, set as soon as any call has set them
Takes_SharedFlags(c, b) ==
    /\ InLoop(c)
    /\ \E line \in {Line(c)} :
           Branch(line, \E d \in Calls : name_done[d],
                        \E d \in Calls : contact_done[d]) = b

\* call c is in the loop and its line takes branch b
Takes(c, b) ==
    /\ InLoop(c)
    /\ \E line \in {Line(c)} : Branch(line, name_done[c], contact_done[c]) = b

\* variant of EmptyLine: the line is skipped, no paragraph is added
EmptyLine_NoParagraph(c) ==
    /\ Takes(c, "Blank")
    /\ i' = [i EXCEPT ![c] = @ + 1]
    /\ UNCHANGED <<pc, resume_text, lines, doc, name_done, contact_done>>
    /\ UNCHANGED routeVars

EmptyLine(c) ==
    /\ Takes(c, "Blank")
    /\ Emit(c, "Blank", BlankParagraph)
    /\ UNCHANGED <<name_done, contact_done>>

\* variant of CandidateName: name_done is not set
CandidateName_FlagNotSet(c) ==
    /\ Takes(c, "Name")
    /\ \E line \in {Line(c)} : Emit(c, "Name", _add_name(line))
    /\ UNCHANGED <<name_done, contact_done>>

CandidateName(c) ==
    /\ Takes(c, "Name")
    /\ \E line \in {Line(c)} : Emit(c, "Name", _add_name(line))
    /\ name_done' = [name_done EXCEPT ![c] = TRUE]
    /\ UNCHANGED contact_done

\* variant of ContactInfo: contact_done is not set
ContactInfo_FlagNotSet(c) ==
    /\ Takes(c, "Contact")
    /\ \E line \in {Line(c)} : Emit(c, "Contact", _add_contact(line))
    /\ UNCHANGED <<name_done, contact_done>>

ContactInfo(c) ==
    /\ Takes(c, "Contact")
    /\ \E line \in {Line(c)} : Emit(c, "Contact", _add_contact(line))
    /\ contact_done' = [contact_done EXCEPT ![c] = TRUE]
    /\ UNCHANGED name_done

\* variant of SectionHeader: a section header clears contact_done
SectionHeader_ClearsContact(c) ==
    /\ Takes(c, "SectionHeader")
    /\ \E line \in {Line(c)} : Emit(c, "SectionHeader", _add_section_header(line))
    /\ contact_done' = [contact_done EXCEPT ![c] = FALSE]
    /\ UNCHANGED name_done

SectionHeader(c) ==
    /\ Takes(c, "SectionHeader")
    /\ \E line \in {Line(c)} : Emit(c, "SectionHeader", _add_section_header(line))
    /\ UNCHANGED <<name_done, contact_done>>

\* variant of BulletPoint: the index grows by 2
BulletPoint_SkipsLine(c) ==
    /\ Takes(c, "Bullet")
    /\ \E line \in {Line(c)} :
            doc' = [doc EXCEPT ![c] =
                       Append(@, Paragraph("Bullet", _add_bullet(_clean_bullet(line)),
                                           i[c], name_done[c], contact_done[c]))]
    /\ i' = [i EXCEPT ![c] = @ + 2]
    /\ UNCHANGED <<pc, resume_text, lines, name_done, contact_done>>
    /\ UNCHANGED routeVars

BulletPoint(c) ==
    /\ Takes(c, "Bullet")
    /\ \E line \in {Line(c)} : Emit(c, "Bullet", _add_bullet(_clean_bullet(line)))
    /\ UNCHANGED <<name_done, contact_done>>

EntryLine(c) ==
    /\ Takes(c, "Entry")
    /\ \E line \in {Line(c)} : Emit(c, "Entry", _add_entry_line(line))
    /\ UNCHANGED <<name_done, contact_done>>

RegularParagraph(c) ==
    /\ Takes(c, "Body")
    /\ \E line \in {Line(c)} : Emit(c, "Body", _add_body_text(line))
    /\ UNCHANGED <<name_done, contact_done>>

\* the loop is left; doc.save(buf); return buf.getvalue()
Save(c) ==
    /\ pc[c] = "loop"
    /\ ~(i[c] < Len(lines[c]))
    /\ pc' = [pc EXCEPT ![c] = "done"]
    /\ UNCHANGED <<resume_text, lines, i, name_done, contact_done, doc>>
    /\ UNCHANGED routeVars

to_docx(c) ==
    \/ Start(c)
    \/ EmptyLine(c)
    \/ CandidateName(c)
    \/ ContactInfo(c)
    \/ SectionHeader(c)
    \/ BulletPoint(c)
    \/ EntryLine(c)
    \/ RegularParagraph(c)
    \/ Save(c)

Next == \E c \in Calls : to_docx(c)

Spec == Init /\ [][Next]_vars

SpecPair == InitPair /\ [][Next]_vars

\* one call on a text of up to MaxFairLines lines of the pool, or on one of
\* the longer fixed texts
FairInputs ==
    {JoinLines(ls) : ls \in LineSeqs(LinePool, 1, MaxFairLines)}
        \cup {PrecedenceText, BlankRunText}

InitFair == \E t \in FairInputs : InitWith(<<CallOn(t), NoCall>>)

\* to_docx is straight-line code around one loop: a call that can take a
\* step takes it
SpecFair == InitFair /\ [][Next]_vars /\ WF_vars(Next)

(***************************************************************************)
(* Route analyze_resume (backend/routes/analyze.py).  Each action is one   *)
(* stage of the handler; what the upload, the AI service and the database  *)
(* do is chosen in the stage that calls them.                              *)
(***************************************************************************)
\* most requests served in a behaviour
MaxRequests == 2

\* the job_description form field
JobDescriptions == { <<>>, <<" ">>, <<"j", "d">> }

\* what await resume_file.read() raises, "none" when it returns the bytes
ReadOutcomes == {"none", "ValueError", "OSError"}

\* _parse_json returns whatever json.loads gives: an object or another value
AnalysisResults ==
    { [json |-> "object", ats_score |-> 62],
      [json |-> "array", ats_score |-> 0] }

NoResult == [json |-> "none", ats_score |-> 0]

\* analyzer.analyze returns a result, or raises RuntimeError (_call_openai)
\* or ValueError (_parse_json)
AnalyzeOutcomes ==
    { [raised |-> "none", value |-> r] : r \in AnalysisResults }
        \cup { [raised |-> e, value |-> NoResult] : e \in {"RuntimeError", "ValueError"} }

\* raise HTTPException(status_code, detail)
HTTPException(status_code, detail) ==
    /\ response' = [status_code |-> status_code, detail |-> detail]
    /\ stage' = "done"

\* a request arrives when no other is being served
Receive(req, loc, first) ==
    /\ stage \in {"idle", "done"}
    /\ served < MaxRequests
    /\ request' = req
    /\ locals' = loc
    /\ stage' = first
    /\ response' = NoResponse
    /\ trace' = <<>>
    /\ served' = served + 1
    /\ UNCHANGED db
    /\ UNCHANGED docxVars

\* the arguments FastAPI binds, and analysis_id = str(uuid.uuid4()): an id
\* no earlier request has
Analyze_Call ==
    \E filename \in Filenames, file_bytes \in Uploads,
       job_description \in JobDescriptions :
        Receive([route |-> "analyze-resume", filename |-> filename,
                 file_bytes |-> file_bytes, job_description |-> job_description],
                [analysis_id |-> served + 1], "extract")

\* resume_file.filename or "resume"
FilenameOrDefault(filename) == IF filename = <<>> THEN <<"r", "e", "s", "u", "m", "e">> ELSE filename

\* stage 1: read the upload, extract its text; ValueError is answered 400,
\* any other exception 422
Analyze_Extract ==
    /\ stage = "extract"
    /\ \E read \in ReadOutcomes :
          LET x == IF read = "none"
                   THEN extract_text(request.file_bytes,
                                     FilenameOrDefault(request.filename))
                   ELSE Raised(read) @@ [parsed |-> FALSE]
              called == <<"read">>
                          \o (IF read = "none" THEN <<"extract_text">> ELSE <<>>)
                          \o (IF x.parsed THEN <<"parse">> ELSE <<>>)
          IN  IF x.raised = "none"
              THEN /\ locals' = [resume_text |-> x.value] @@ locals
                   /\ stage' = "check"
                   /\ trace' = trace \o called
                   /\ UNCHANGED response
              ELSE IF x.raised = "ValueError"
              THEN /\ locals' = [e |-> x.raised] @@ locals
                   /\ trace' = trace \o called
                   /\ HTTPException(400, "str(e)")
              ELSE /\ locals' = [e |-> x.raised] @@ locals
                   /\ trace' = trace \o called \o <<"logger.error">>
                   /\ HTTPException(422, "Could not extract text from file.")
    /\ UNCHANGED <<request, db, served>>
    /\ UNCHANGED docxVars

\* variant of Analyze_BlankCheck: blank text goes on to the analysis
Analyze_BlankCheck_Passes ==
    /\ stage = "check"
    /\ stage' = "ai"
    /\ UNCHANGED <<request, locals, response, db, trace, served>>
    /\ UNCHANGED docxVars

\* if not resume_text.strip(): 400
Analyze_BlankCheck ==
    /\ stage = "check"
    /\ IF Strip(locals.resume_text) = <<>>
       THEN HTTPException(400, "No text could be extracted. Try a different file format.")
       ELSE stage' = "ai" /\ UNCHANGED response
    /\ UNCHANGED <<request, locals, db, trace, served>>
    /\ UNCHANGED docxVars

\* stage 2: the AI analysis; any exception is answered 502
Analyze_AI ==
    /\ stage = "ai"
    /\ \E a \in AnalyzeOutcomes :
          LET has_jd == Strip(request.job_description) # <<>>
          IN  IF a.raised = "none"
              THEN /\ locals' = [has_jd |-> has_jd, result |-> a.value] @@ locals
                   /\ trace' = trace \o <<"analyze">>
                   /\ stage' = "persist"
                   /\ UNCHANGED response
              ELSE /\ locals' = [has_jd |-> has_jd, e |-> a.raised] @@ locals
                   /\ trace' = trace \o <<"analyze", "logger.error">>
                   /\ HTTPException(502, "AI analysis failed: str(e)")
    /\ UNCHANGED <<request, db, served>>
    /\ UNCHANGED docxVars

\* the dict the handler builds for the collection (the timestamp left out)
AnalysisDoc ==
    [analysis_id |-> locals.analysis_id,
     filename |-> request.filename,
     has_jd |-> locals.has_jd,
     resume_text |-> locals.resume_text,
     job_description |-> Strip(request.job_description),
     result |-> locals.result]

\* variant of Analyze_Persist: a failing insert becomes the response
Analyze_Persist_Propagates ==
    /\ stage = "persist"
    /\ \E ok \in BOOLEAN :
          IF ok
          THEN /\ db' = Append(db, AnalysisDoc)
               /\ trace' = trace \o <<"insert_one">>
               /\ stage' = "return"
               /\ UNCHANGED response
          ELSE /\ trace' = trace \o <<"insert_one">>
               /\ HTTPException(500, "Internal Server Error")
               /\ UNCHANGED db
    /\ UNCHANGED <<request, locals, served>>
    /\ UNCHANGED docxVars

\* stage 3: **result needs a mapping (otherwise TypeError, which no handler
\* of the route catches); a failing insert_one is logged as a warning
Analyze_Persist ==
    /\ stage = "persist"
    /\ IF locals.result.json # "object"
       THEN /\ HTTPException(500, "Internal Server Error")
            /\ UNCHANGED <<db, trace>>
       ELSE /\ \E ok \in BOOLEAN :
                  IF ok
                  THEN /\ db' = Append(db, AnalysisDoc)
                       /\ trace' = trace \o <<"insert_one">>
                  ELSE /\ trace' = trace \o <<"insert_one", "logger.warning">>
                       /\ UNCHANGED db
            /\ stage' = "return"
            /\ UNCHANGED response
    /\ UNCHANGED <<request, locals, served>>
    /\ UNCHANGED docxVars

\* stage 4: the success response
Analyze_Return ==
    /\ stage = "return"
    /\ request.route = "analyze-resume"
    /\ response' = [status_code |-> 200,
                    success |-> TRUE,
                    analysis_id |-> locals.analysis_id,
                    has_jd |-> locals.has_jd,
                    resume_text |-> locals.resume_text,
                    result |-> locals.result]
    /\ stage' = "done"
    /\ UNCHANGED <<request, locals, db, trace, served>>
    /\ UNCHANGED docxVars

analyze_resume ==
    \/ Analyze_Call
    \/ Analyze_Extract
    \/ Analyze_BlankCheck
    \/ Analyze_AI
    \/ Analyze_Persist
    \/ Analyze_Return

(***************************************************************************)
(* Route enhance_resume (backend/routes/enhance.py).                       *)
(***************************************************************************)
\* one Suggestion of the request schema
ASuggestion ==
    [id |-> 1, category |-> "keywords", priority |-> "high",
     issue |-> "weak verbs", fix |-> "use action verbs"]

\* the suggestions lists of the payloads
SuggestionLists == { <<>>, <<ASuggestion>> }

\* EnhanceRequest payloads: analysis_id may name a stored analysis or not
Payloads ==
    { [route |-> "enhance-resume", analysis_id |-> id, resume_text |-> <<"A", "l">>,
       job_description |-> <<>>, suggestions |-> sl] :
          id \in 1..MaxRequests, sl \in SuggestionLists }

\* enhancer.enhance returns the stripped content of the completion, or
\* raises RuntimeError (_call_openai)
EnhanceOutcomes ==
    { [raised |-> "none", value |-> <<"A", "l", "\n", "x">>],
      [raised |-> "none", value |-> <<>>],
      [raised |-> "RuntimeError", value |-> <<>>] }

Enhance_Call ==
    \E payload \in Payloads : Receive(payload, NoLocals, "validate")

\* if not payload.suggestions: 400
Enhance_Validate ==
    /\ stage = "validate"
    /\ IF request.suggestions = <<>>
       THEN HTTPException(400, "No suggestions provided.")
       ELSE stage' = "rewrite" /\ UNCHANGED response
    /\ UNCHANGED <<request, locals, db, trace, served>>
    /\ UNCHANGED docxVars

\* the AI rewrite; any exception is answered 502
Enhance_Rewrite ==
    /\ stage = "rewrite"
    /\ \E r \in EnhanceOutcomes :
          IF r.raised = "none"
          THEN /\ locals' = [enhanced_text |-> r.value] @@ locals
               /\ trace' = trace \o <<"enhance">>
               /\ stage' = "update"
               /\ UNCHANGED response
          ELSE /\ locals' = [e |-> r.raised] @@ locals
               /\ trace' = trace \o <<"enhance", "logger.error">>
               /\ HTTPException(502, "AI enhancement failed: str(e)")
    /\ UNCHANGED <<request, db, served>>
    /\ UNCHANGED docxVars

\* update_one({"analysis_id": id}, {"$set": {"enhanced_text": text}}): the
\* first document with that id gets the field, no document is added
update_one(coll, id, text) ==
    IF \E k \in 1..Len(coll) : coll[k].analysis_id = id
    THEN LET k == CHOOSE k \in 1..Len(coll) :
                     /\ coll[k].analysis_id = id
                     /\ \A j \in 1..(k - 1) : coll[j].analysis_id # id
             old == coll[k]
             new == [f \in (DOMAIN old) \cup {"enhanced_text"} |->
                        IF f = "enhanced_text" THEN text ELSE old[f]]
         IN  [coll EXCEPT ![k] = new]
    ELSE coll

\* variant of Enhance_Update: the request text is stored, not the rewrite
Enhance_Update_StoresInput ==
    /\ stage = "update"
    /\ \E ok \in BOOLEAN :
          IF ok
          THEN /\ db' = update_one(db, request.analysis_id, request.resume_text)
               /\ trace' = trace \o <<"update_one">>
          ELSE /\ trace' = trace \o <<"update_one", "logger.warning">>
               /\ UNCHANGED db
    /\ stage' = "reply"
    /\ UNCHANGED <<request, locals, response, served>>
    /\ UNCHANGED docxVars

\* a failing update_one is logged as a warning
Enhance_Update ==
    /\ stage = "update"
    /\ \E ok \in BOOLEAN :
          IF ok
          THEN /\ db' = update_one(db, request.analysis_id, locals.enhanced_text)
               /\ trace' = trace \o <<"update_one">>
          ELSE /\ trace' = trace \o <<"update_one", "logger.warning">>
               /\ UNCHANGED db
    /\ stage' = "reply"
    /\ UNCHANGED <<request, locals, response, served>>
    /\ UNCHANGED docxVars

Enhance_Return ==
    /\ stage = "reply"
    /\ response' = [status_code |-> 200,
                    success |-> TRUE,
                    enhanced_text |-> locals.enhanced_text]
    /\ stage' = "done"
    /\ UNCHANGED <<request, locals, db, trace, served>>
    /\ UNCHANGED docxVars

enhance_resume ==
    \/ Enhance_Call
    \/ Enhance_Validate
    \/ Enhance_Rewrite
    \/ Enhance_Update
    \/ Enhance_Return

NextRoutes == analyze_resume \/ enhance_resume

\* no to_docx call is made
InitRoutes == InitWith(<<NoCall, NoCall>>)

SpecRoutes == InitRoutes /\ [][NextRoutes]_vars

(***************************************************************************)
(* Derived values the properties speak of.                                 *)
(***************************************************************************)
\* the roles of the paragraphs of a document, in order
RolesOf(d) == [k \in 1..Len(d) |-> d[k].role]

\* the positions of the paragraphs of role r
Positions(d, r) == { k \in 1..Len(d) : d[k].role = r }

Done(c) == pc[c] = "done"

\* the trimmed text of the k-th normalized line of call c
LineAt(c, k) == Strip(lines[c][k])

\* the indices of the non-blank normalized lines of call c
NonBlank(c) == { k \in 1..Len(lines[c]) : ~IsBlank(lines[c][k]) }

\* the least element of a non-empty set of numbers
Least(S) == CHOOSE k \in S : \A j \in S : k <= j

(***************************************************************************)
(* C1.  The Name role goes to a line if and only if it is the first        *)
(* non-blank line of the normalized sequence, whatever the line contains;  *)
(* so a finished document holds no Name paragraph when every line is       *)
(* blank and exactly one otherwise.                                        *)
(***************************************************************************)
C1_NameIsFirstNonBlank ==
    \A c \in Calls :
        /\ \A k \in 1..Len(doc[c]) :
              doc[c][k].role = "Name"
                  <=> (NonBlank(c) # {} /\ doc[c][k].src + 1 = Least(NonBlank(c)))
        /\ Done(c) =>
              Cardinality(Positions(doc[c], "Name"))
                  = (IF NonBlank(c) = {} THEN 0 ELSE 1)

\* a finished conversion whose name line follows a blank line and passes the
\* contact, the section-header and the entry test
C1_Witness ==
    /\ Done(1)
    /\ \E k \in 2..Len(doc[1]) :
          /\ doc[1][k].role = "Name"
          /\ _is_contact_line(LineAt(1, k))
          /\ _is_section_header(LineAt(1, k))
          /\ _is_entry_line(LineAt(1, k))
    /\ \E k \in 1..Len(lines[1]) : _is_bullet(LineAt(1, k))

(***************************************************************************)
(* C2.  There is at most one Contact line; it comes after the Name line    *)
(* and is the first line after the Name line that passes the contact test  *)
(* (the test is made, as everywhere in the loop, on the trimmed line); and *)
(* when a finished document has no Contact line, no line after the Name    *)
(* line passes the contact test.                                           *)
(***************************************************************************)
C2_ContactIsFirstContactLike ==
    \A c \in Calls :
        LET P == Positions(doc[c], "Contact")
            N == Positions(doc[c], "Name")
        IN  /\ Cardinality(P) <= 1
            /\ \A k \in P :
                  /\ _is_contact_line(LineAt(c, k))
                  /\ \E n \in N :
                        /\ n < k
                        /\ \A j \in (n + 1)..(k - 1) : ~_is_contact_line(LineAt(c, j))
            /\ (Done(c) /\ P = {}) =>
                  \A n \in N : \A j \in (n + 1)..Len(lines[c]) :
                      ~_is_contact_line(LineAt(c, j))

\* a finished conversion with a Contact line, a line between the Name and the
\* Contact line, and a later line that passes the contact test as well
C2_Witness ==
    /\ Done(1)
    /\ \E n, k, j \in 1..Len(doc[1]) :
          /\ n + 1 < k /\ k < j
          /\ doc[1][n].role = "Name"
          /\ doc[1][k].role = "Contact"
          /\ _is_contact_line(LineAt(1, j))

(***************************************************************************)
(* C3.  Classification is total with the precedence Blank > Name >         *)
(* Contact > SectionHeader > Bullet > Entry > Body: every normalized line  *)
(* gets one role, one paragraph for each line in order, and that role is   *)
(* the first one in the order whose condition holds of the line and of the *)
(* flags as they were when the line was reached.                           *)
(***************************************************************************)
Precedence ==
    <<"Blank", "Name", "Contact", "SectionHeader", "Bullet", "Entry", "Body">>

\* the condition of a role, of a trimmed line and the two flags
Condition(role, line, nd, cd) ==
    CASE role = "Blank" -> line = <<>>
      [] role = "Name" -> ~nd
      [] role = "Contact" -> ~cd /\ _is_contact_line(line)
      [] role = "SectionHeader" -> _is_section_header(line)
      [] role = "Bullet" -> _is_bullet(line)
      [] role = "Entry" -> _is_entry_line(line)
      [] role = "Body" -> TRUE

FirstMatch(line, nd, cd) ==
    Precedence[Least({ r \in 1..Len(Precedence) :
                         Condition(Precedence[r], line, nd, cd) })]

C3_Precedence ==
    \A c \in Calls :
        /\ \A k \in 1..Len(doc[c]) :
              /\ doc[c][k].src = k - 1
              /\ doc[c][k].role
                    = FirstMatch(LineAt(c, k), doc[c][k].name_done, doc[c][k].contact_done)
        /\ Done(c) => Len(doc[c]) = Len(lines[c])

\* the precedence text converted: after the name and the contact line, the
\* all-caps lines that start with a bullet glyph or hold a pipe and a year
\* are section headers, the bullet line with a pipe and a month is a bullet
C3_Witness ==
    /\ Done(1)
    /\ resume_text[1] = PrecedenceText
    /\ RolesOf(doc[1]) = <<"Name", "SectionHeader", "Contact", "SectionHeader",
                          "SectionHeader", "Bullet", "Entry", "Body">>
    /\ _is_bullet(LineAt(1, 4))
    /\ _is_entry_line(LineAt(1, 5))
    /\ _is_entry_line(LineAt(1, 6))

(***************************************************************************)
(* C4.  Order preservation: the k-th paragraph appended is the rendering   *)
(* of the k-th normalized line, and a finished document has as many        *)
(* paragraphs as there are normalized lines.                               *)
(***************************************************************************)
\* the runs of the paragraph of a role for a trimmed line
Rendering(role, line) ==
    CASE role = "Blank" -> BlankParagraph
      [] role = "Name" -> _add_name(line)
      [] role = "Contact" -> _add_contact(line)
      [] role = "SectionHeader" -> _add_section_header(line)
      [] role = "Bullet" -> _add_bullet(_clean_bullet(line))
      [] role = "Entry" -> _add_entry_line(line)
      [] role = "Body" -> _add_body_text(line)

PastEmptyText(c) == pc[c] \in {"loop", "done"} /\ resume_text[c] = <<>>

C5_EmptyInputNoLines ==
    \A c \in Calls : PastEmptyText(c) => lines[c] = <<>> /\ doc[c] = <<>>

C5_EmptyInputOneBlank ==
    \A c \in Calls :
        PastEmptyText(c) =>
            /\ lines[c] = << <<>> >>
            /\ Done(c) => RolesOf(doc[c]) = <<"Blank">> /\ doc[c][1].runs = <<>>

C5_Witness == Done(1) /\ resume_text[1] = <<>>

(***************************************************************************)
(* C6.  Blank collapsing: the normalized sequence has no two adjacent      *)
(* blank lines; a line of the text is dropped only when it is blank and    *)
(* the line immediately before it is blank; the non-blank lines are all    *)
(* kept, as they are after the removal of trailing whitespace, in their    *)
(* order; "a", three blank lines, "b" gives "a", one blank line, "b".      *)
(***************************************************************************)
\* the indices of the lines of ls that are not a blank line after a blank line
Kept(ls) ==
    { k \in 1..Len(ls) : ~(IsBlank(ls[k]) /\ k > 1 /\ IsBlank(ls[k - 1])) }

RECURSIVE Pick(_, _, _)
\* the lines of ls whose index is in S, from index k on, in order
Pick(ls, S, k) ==
    IF k > Len(ls) THEN <<>>
    ELSE (IF k \in S THEN <<ls[k]>> ELSE <<>>) \o Pick(ls, S, k + 1)

IsNonBlank(line) == ~IsBlank(line)

C6_BlankCollapsing ==
    \A c \in Calls :
        pc[c] \in {"loop", "done"} =>
            LET raw == RawLines(resume_text[c])
            IN  /\ \A k \in 1..(Len(lines[c]) - 1) :
                      ~(IsBlank(lines[c][k]) /\ IsBlank(lines[c][k + 1]))
                /\ lines[c] = Pick(raw, Kept(raw), 1)
                /\ SelectSeq(lines[c], IsNonBlank) = SelectSeq(raw, IsNonBlank)
                /\ resume_text[c] = BlankRunText => lines[c] = <<<<"a">>, <<>>, <<"b">>>>

\* the blank-run text normalized, a run of blank lines collapsed to one
C6_Witness ==
    /\ pc[1] = "loop"
    /\ resume_text[1] = BlankRunText
    /\ Len(RawLines(resume_text[1])) = 5
    /\ Len(lines[1]) = 3

(***************************************************************************)
(* C7.  Normalization is idempotent: the normalized lines joined with      *)
(* newlines normalize to themselves.                                       *)
(***************************************************************************)
C7_NormalizeIdempotent ==
    \A c \in Calls :
        pc[c] \in {"loop", "done"} => Normalize(JoinLines(lines[c])) = lines[c]

\* a normalization that dropped a blank line and removed trailing whitespace
C7_Witness ==
    /\ pc[1] = "loop"
    /\ Len(lines[1]) < Len(SplitLines(resume_text[1]))
    /\ JoinLines(lines[1]) # resume_text[1]
    /\ \E k \in 1..Len(lines[1]) : IsBlank(lines[1][k])
    /\ \E k \in 1..Len(lines[1]) : ~IsBlank(lines[1][k])

(***************************************************************************)
(* C8.  The classifier state is monotone: both flags are false when the    *)
(* loop starts; no step turns a flag from true to false; name_done changes *)
(* exactly in the step that classifies a line Name and contact_done        *)
(* exactly in the step that classifies a line Contact, so a line of any    *)
(* other role leaves both unchanged; contact_done is never true while      *)
(* name_done is false.                                                     *)
(***************************************************************************)
\* the role the step appends a paragraph of, "none" when it appends none
Appended(c) ==
    IF Len(doc'[c]) = Len(doc[c]) + 1 THEN doc'[c][Len(doc'[c])].role ELSE "none"

C8_Step ==
    \A c \in Calls :
        /\ name_done[c] => name_done'[c]
        /\ contact_done[c] => contact_done'[c]
        /\ (name_done'[c] # name_done[c]) <=> (Appended(c) = "Name")
        /\ (contact_done'[c] # contact_done[c]) <=> (Appended(c) = "Contact")
        /\ (pc[c] = "start" /\ pc'[c] = "loop") => ~name_done'[c] /\ ~contact_done'[c]
        /\ contact_done'[c] => name_done'[c]

C8_FlagsMonotone == [][C8_Step]_vars

\* a finished conversion with both flags set and, after the Contact line,
\* lines of other roles
C8_Witness ==
    /\ Done(1)
    /\ name_done[1] /\ contact_done[1]
    /\ \E k \in 1..Len(doc[1]) :
          /\ doc[1][k].role = "Contact"
          /\ \E j \in (k + 1)..Len(doc[1]) : doc[1][j].role = "SectionHeader"
          /\ \E j \in (k + 1)..Len(doc[1]) : doc[1][j].role = "Entry"
          /\ \E j \in (k + 1)..Len(doc[1]) : doc[1][j].role = "Body"

(***************************************************************************)
(* C9.  No lookahead and determinism: when the normalized lines of two     *)
(* conversions agree on their first k lines, the roles of the first k      *)
(* paragraphs agree, whatever follows; two conversions of one text give    *)
(* the same sequence of roles.                                             *)
(***************************************************************************)
Min(a, b) == IF a <= b THEN a ELSE b

C9_NoLookahead ==
    /\ \A k \in 0..Min(Len(doc[1]), Len(doc[2])) :
          SubSeq(lines[1], 1, k) = SubSeq(lines[2], 1, k)
              => SubSeq(RolesOf(doc[1]), 1, k) = SubSeq(RolesOf(doc[2]), 1, k)
    /\ (Done(1) /\ Done(2) /\ resume_text[1] = resume_text[2])
          => RolesOf(doc[1]) = RolesOf(doc[2])

\* two finished conversions of texts that share their first two lines, a
\* name and a line with a pipe, and differ after them, the second text going
\* on with a line that holds an "@"
C9_Witness ==
    /\ Done(1) /\ Done(2)
    /\ Len(lines[1]) = 2 /\ Len(lines[2]) = 3
    /\ SubSeq(lines[2], 1, 2) = lines[1]
    /\ RolesOf(doc[1]) = <<"Name", "Contact">>
    /\ Contains(lines[1][2], <<"|">>)
    /\ Contains(lines[2][3], <<"@">>)

(***************************************************************************)
(* C10.  Scenario: the 9-line resume of the specification is given the     *)
(* roles Name, Contact, Blank, SectionHeader, Body, Blank, SectionHeader,  *)
(* Entry, Bullet.                                                          *)
(***************************************************************************)
C10_Scenario ==
    \A c \in Calls :
        (Done(c) /\ resume_text[c] = ScenarioText) =>
            RolesOf(doc[c]) = <<"Name", "Contact", "Blank", "SectionHeader", "Body",
                               "Blank", "SectionHeader", "Entry", "Bullet">>

C10_Witness ==
    /\ Done(1)
    /\ resume_text[1] = ScenarioText
    /\ Len(lines[1]) = 9

(***************************************************************************)
(* C11.  Section header precision: a line that reaches the section-header  *)
(* rule is a SectionHeader exactly when its trimmed length is at most 45   *)
(* and it has at least 3 ASCII letters, none of them lower-case; so a line *)
(* with a lower-case letter is never a SectionHeader; of the header text,  *)
(* "EXPERIENCE" and the lines of 45 characters are section headers,        *)
(* "Experience" and the line of 46 characters are not.                     *)
(***************************************************************************)
HeaderEligible(line) ==
    /\ Len(line) <= 45
    /\ Cardinality({ k \in 1..Len(line) : IsAsciiLetter(line[k]) }) >= 3
    /\ \A k \in 1..Len(line) : ~IsLower(line[k])

DigitValue(ch) == CHOOSE n \in 0..9 : ToString(n) = ch

\* four digits in a row that read as a number from 1900 to 2099
YearInRange(line) ==
    \E p \in 1..(Len(line) - 3) :
        /\ \A q \in p..(p + 3) : line[q] \in Digits
        /\ LET y == 1000 * DigitValue(line[p]) + 100 * DigitValue(line[p + 1])
                      + 10 * DigitValue(line[p + 2]) + DigitValue(line[p + 3])
           IN  1900 <= y /\ y <= 2099

EntryLike(line) ==
    /\ \E p \in 1..Len(line) : line[p] = "|"
    /\ \/ YearInRange(line)
       \/ \E w \in DateWords : Contains(Lower(line), w)

IsNotWs(ch) == ch \notin Whitespace

RECURSIVE JoinSegments(_, _)
\* the texts of the runs k, k + 2, ... joined with pipes
JoinSegments(runs, k) ==
    IF k > Len(runs) THEN <<>>
    ELSE IF k + 2 > Len(runs) THEN runs[k].text
    ELSE runs[k].text \o <<"|">> \o JoinSegments(runs, k + 2)

EntryRendering(runs, line) ==
    LET pipes == Cardinality({ p \in 1..Len(line) : line[p] = "|" })
        n == Min(pipes, 2) + 1
    IN  /\ Len(runs) = 2 * n - 1
        /\ \A j \in 1..Len(runs) :
              /\ runs[j].bold <=> j = 1
              /\ j % 2 = 0 => runs[j].text = <<" ", " ", "|", " ", " ">>
              /\ j % 2 = 1 => runs[j].text = Strip(runs[j].text)
              /\ (j % 2 = 1 /\ j < Len(runs)) => ~Contains(runs[j].text, <<"|">>)
        /\ SelectSeq(JoinSegments(runs, 1), IsNotWs) = SelectSeq(line, IsNotWs)

IsBulletRemainder(s, t) ==
    \E p \in 0..Len(t) :
        /\ \A q \in 1..p : t[q] \in Whitespace \cup BulletStart
        /\ p < Len(t) => t[p + 1] \notin Whitespace \cup BulletStart
        /\ s = Strip(SubSeq(t, p + 1, Len(t)))

C13_BulletStripping ==
    \A c \in Calls :
        /\ \A k \in 1..Len(doc[c]) :
              /\ doc[c][k].role = "Bullet" =>
                    LET text == doc[c][k].runs[1].text
                    IN  /\ Len(doc[c][k].runs) = 1
                        /\ IsBulletRemainder(text, LineAt(c, k))
                        /\ text # <<>> => text[1] \notin Whitespace \cup BulletStart
                        /\ _clean_bullet(text) = text
              /\ _is_bullet(lines[c][k]) = _is_bullet(LineAt(c, k))
              /\ doc[c][k].role \in {"Bullet", "Entry", "Body"}
                    => (doc[c][k].role = "Bullet" <=> _is_bullet(lines[c][k]))
        /\ (Done(c) /\ resume_text[c] = BulletText) =>
              /\ SubSeq(RolesOf(doc[c]), 3, 8)
                    = <<"Bullet", "Bullet", "Bullet", "Bullet", "Bullet", "Body">>
              /\ doc[c][3].runs[1].text = 
                    <<"L", "e", "d", " ", "m", "i", "g", "r", "a", "t",
                      "i", "o", "n", " ", "o", "f",
                      " ", "1", "2", " ", "s", "e",
                      "r", "v", "i", "c", "e", "s">>

\* the bullet text converted: a bullet line with whitespace before the glyph,
\* one with several glyphs, one with nothing but glyphs
C13_Witness ==
    /\ Done(1)
    /\ resume_text[1] = BulletText
    /\ doc[1][3].role = "Bullet" /\ lines[1][3][1] \in Whitespace
    /\ doc[1][4].role = "Bullet" /\ doc[1][4].runs[1].text = <<"a">>
    /\ doc[1][5].role = "Bullet" /\ doc[1][5].runs[1].text = <<>>

(***************************************************************************)
(* C14.  The conversion always completes: every step of the loop moves     *)
(* the index up by 1 and appends the paragraph of the line at the old      *)
(* index; the call is always at its start, in the loop or finished (there  *)
(* is no error state); the loop is left only with the index equal to the   *)
(* number of normalized lines, one paragraph for each; and every call that *)
(* was made finishes.                                                      *)
(***************************************************************************)
C14_Step ==
    \A c \in Calls :
        /\ pc'[c] \in {"idle", "start", "loop", "done"}
        /\ (pc[c] = "loop" /\ pc'[c] = "loop" /\ i'[c] # i[c]) =>
              /\ i[c] < Len(lines[c])
              /\ i'[c] = i[c] + 1
              /\ Len(doc'[c]) = Len(doc[c]) + 1
              /\ doc'[c][Len(doc'[c])].src = i[c]
        /\ (pc[c] = "loop" /\ pc'[c] = "done") =>
              /\ i[c] = Len(lines[c])
              /\ i'[c] = i[c]
              /\ Len(doc'[c]) = Len(lines[c])

Alone(t) ==
    LET ls == Normalize(t)
        run[k \in 0..Len(ls), nd \in BOOLEAN, cd \in BOOLEAN] ==
            IF k = Len(ls) THEN <<>>
            ELSE LET line == Strip(ls[k + 1])
                     b == Branch(line, nd, cd)
                 IN  <<Paragraph(b, Rendering(b, line), k, nd, cd)>>
                         \o run[k + 1, nd \/ b = "Name", cd \/ b = "Contact"]
    IN  run[0, FALSE, FALSE]

C15_Independent ==
    \A c \in Calls :
        pc[c] \in {"loop", "done"} =>
            LET alone == Alone(resume_text[c])
            IN  /\ Len(doc[c]) <= Len(alone)
                /\ doc[c] = SubSeq(alone, 1, Len(doc[c]))
                /\ Done(c) => doc[c] = alone

\* both calls are inside the loop at once; call 1 has appended its Contact
\* paragraph and set its flag before call 2 classified its own second line,
\* a line with a pipe, which call 2 made its Contact paragraph
C15_Witness ==
    /\ pc[1] = "loop" /\ pc[2] = "loop"
    /\ Len(doc[1]) = 2 /\ doc[1][2].role = "Contact"
    /\ Len(doc[2]) = 2 /\ doc[2][2].role = "Contact"
    /\ Contains(lines[2][2], <<"|">>)
    /\ ~Contains(lines[1][2], <<"|">>)

(***************************************************************************)
(* Values the properties of the routes speak of.                           *)
(***************************************************************************)
\* the collaborator or logger call x was made for the current request
Called(x) == \E k \in 1..Len(trace) : trace[k] = x

\* the calls made for the current request without those of the logger
Collaborators ==
    SelectSeq(trace, LAMBDA x : x \notin {"logger.error", "logger.warning"})

Analyzing == request.route = "analyze-resume"

Enhancing == request.route = "enhance-resume"

\* the current request has been answered with an error status
ErrorResponse == response.status_code \in {400, 422, 500, 502}

(***************************************************************************)
(* C16.  Persistence failures are swallowed: once insert_one (analyze) or  *)
(* update_one (enhance) has been attempted, whether it failed or not, the  *)
(* request is answered 200 with the payload made of the extracted text,    *)
(* the has_jd flag, the id and the AI result (analyze) or of the rewritten *)
(* text (enhance); a logged persistence failure never comes with an error  *)
(* response.                                                               *)
(***************************************************************************)
C16_PersistenceSwallowed ==
    /\ (stage = "done" /\ Called("insert_one")) =>
          /\ response = [status_code |-> 200,
                         success |-> TRUE,
                         analysis_id |-> locals.analysis_id,
                         has_jd |-> locals.has_jd,
                         resume_text |-> locals.resume_text,
                         result |-> locals.result]
          /\ response.analysis_id = served
          /\ response.has_jd = (Strip(request.job_description) # <<>>)
          /\ response.resume_text =
                extract_text(request.file_bytes,
                             FilenameOrDefault(request.filename)).value
    /\ (stage = "done" /\ Called("update_one")) =>
          response = [status_code |-> 200,
                      success |-> TRUE,
                      enhanced_text |-> locals.enhanced_text]
    /\ Called("logger.warning") =>
          /\ stage \in {"return", "reply", "done"}
          /\ ~ErrorResponse

\* an analysis answered 200 although its insert failed and was logged: the
\* collection holds no record of it
C16_Witness ==
    /\ Analyzing
    /\ stage = "done"
    /\ trace = <<"read", "extract_text", "parse", "analyze", "insert_one",
                 "logger.warning">>
    /\ response.status_code = 200
    /\ \A k \in 1..Len(db) : db[k].analysis_id # locals.analysis_id

(***************************************************************************)
(* C17.  analyze_resume runs extract, analyze, persist, respond in that    *)
(* order and stops at the first failure: the AI is called only with        *)
(* extracted text that is not blank, insert_one only with a result of the  *)
(* AI, a success response comes only after all stages, and a request       *)
(* answered with an error has no record in the collection.                 *)
(***************************************************************************)
AnalyzeOrder == <<"read", "extract_text", "parse", "analyze", "insert_one">>

C17_StageOrder ==
    Analyzing =>
        /\ Len(Collaborators) <= Len(AnalyzeOrder)
        /\ Collaborators = SubSeq(AnalyzeOrder, 1, Len(Collaborators))
        /\ Called("analyze") =>
              /\ "resume_text" \in DOMAIN locals
              /\ Strip(locals.resume_text) # <<>>
        /\ Called("insert_one") =>
              /\ "result" \in DOMAIN locals
              /\ locals.result \in AnalysisResults
        /\ response.status_code = 200 =>
              /\ stage = "done"
              /\ Collaborators = AnalyzeOrder
        /\ ErrorResponse =>
              /\ stage = "done"
              /\ ~Called("insert_one")
              /\ \A k \in 1..Len(db) : db[k].analysis_id # locals.analysis_id
        /\ \A k \in 1..Len(db) :
              db[k].analysis_id = locals.analysis_id => Called("insert_one")

\* the second request stopped at the AI stage with 502; the collection
\* still holds the record of the first request only
C17_Witness ==
    /\ Analyzing
    /\ stage = "done"
    /\ response.status_code = 502
    /\ Collaborators = <<"read", "extract_text", "parse", "analyze">>
    /\ locals.analysis_id = 2
    /\ Len(db) = 1 /\ db[1].analysis_id = 1

(***************************************************************************)
(* C18.  extract_text raises nothing but ValueError: for a filename whose  *)
(* lower-cased suffix is not allowed, before any reader is called, and for *)
(* any exception of a reader; analyze_resume answers both with 400, and    *)
(* answers 422 only when reading the upload raised something that is not a *)
(* ValueError.                                                             *)
(***************************************************************************)
C18_ExtractionErrors ==
    (Analyzing /\ stage # "extract") =>
        LET filename == FilenameOrDefault(request.filename)
            supported == Lower(Suffix(filename)) \in ALLOWED
            x == extract_text(request.file_bytes, filename)
        IN  /\ Called("extract_text") =>
                  /\ x.raised \in {"none", "ValueError"}
                  /\ ~supported => (x.raised = "ValueError" /\ ~x.parsed)
                  /\ Called("parse") <=> x.parsed
                  /\ ~supported => (response.status_code = 400 /\ ~Called("parse"))
                  /\ (supported /\ ~request.file_bytes.readable
                        /\ Lower(Suffix(filename)) # <<".", "t", "x", "t">>)
                        => (response.status_code = 400 /\ Called("parse"))
                  /\ x.raised = "ValueError" => response.status_code = 400
            /\ response.status_code = 422 =>
                  /\ ~Called("extract_text")
                  /\ locals.e # "ValueError"

\* a file with an allowed suffix in upper case whose bytes no reader opens:
\* the reader was called and the answer is 400
C18_Witness ==
    /\ Analyzing
    /\ stage = "done"
    /\ response.status_code = 400
    /\ Called("parse")
    /\ Suffix(request.filename) = <<".", "P", "D", "F">>
    /\ ~request.file_bytes.readable

(***************************************************************************)
(* C19.  enhance_resume answers an empty suggestions list with 400 before  *)
(* the rewrite or the collection is touched, answers a failed rewrite with *)
(* 502 without an update, and changes the collection only in its update    *)
(* stage, after a successful rewrite, storing under enhanced_text exactly  *)
(* the text it returns.                                                    *)
(***************************************************************************)
C19_State ==
    Enhancing =>
        /\ (request.suggestions = <<>> /\ stage # "validate") =>
              /\ stage = "done"
              /\ response.status_code = 400
              /\ trace = <<>>
        /\ response.status_code = 502 =>
              /\ ~Called("update_one")
              /\ "enhanced_text" \notin DOMAIN locals
        /\ Called("update_one") =>
              /\ trace[1] = "enhance"
              /\ "enhanced_text" \in DOMAIN locals
        /\ response.status_code = 200 =>
              /\ Called("update_one")
              /\ response.enhanced_text = locals.enhanced_text
              /\ ~Called("logger.warning") =>
                    \A k \in 1..Len(db) :
                        db[k].analysis_id = request.analysis_id =>
                            /\ "enhanced_text" \in DOMAIN db[k]
                            /\ db[k].enhanced_text = response.enhanced_text

C19_Step ==
    /\ C19_State'
    /\ (Enhancing /\ db' # db) =>
          /\ stage = "update" /\ stage' = "reply"
          /\ request.suggestions # <<>>
          /\ Len(db') = Len(db)
          /\ \A k \in 1..Len(db) :
                db'[k] # db[k] =>
                    /\ db[k].analysis_id = request.analysis_id
                    /\ db'[k].enhanced_text = locals.enhanced_text
                    /\ \A f \in DOMAIN db[k] :
                          f # "enhanced_text" => db'[k][f] = db[k][f]

C19_EnhanceErrors == [][C19_Step]_vars

\* the rewrite of a stored analysis succeeded, was stored and was returned
C19_Witness ==
    /\ Enhancing
    /\ stage = "done"
    /\ response.status_code = 200
    /\ ~Called("logger.warning")
    /\ Len(db) = 1
    /\ db[1].analysis_id = request.analysis_id
    /\ "enhanced_text" \in DOMAIN db[1]
    /\ db[1].enhanced_text = response.enhanced_text
    /\ response.enhanced_text # <<>>

(***************************************************************************)
(* C20.  No Entry before Contact: a line that holds a pipe is contact-like *)
(* and the Contact rule comes before the Entry rule, so no paragraph is an *)
(* Entry made while contact_done was false, every Entry follows a Contact  *)
(* paragraph, and the first line with a pipe after the Name, when no line  *)
(* between them is contact-like, is the Contact paragraph.                 *)
(***************************************************************************)
C20_NoEntryBeforeContact ==
    \A c \in Calls :
        \A k \in 1..Len(doc[c]) :
            LET line == LineAt(c, k)
                para == doc[c][k]
            IN  /\ Contains(line, <<"|">>) => _is_contact_line(line)
                /\ para.role = "Entry" =>
                      /\ para.contact_done
                      /\ \E j \in 1..(k - 1) : doc[c][j].role = "Contact"
                /\ (Contains(line, <<"|">>) /\ para.name_done /\ ~para.contact_done)
                      => para.role = "Contact"
                /\ \A n \in 1..(k - 1) :
                      ( /\ doc[c][n].role = "Name"
                        /\ Contains(line, <<"|">>)
                        /\ \A j \in (n + 1)..(k - 1) : ~_is_contact_line(LineAt(c, j)) )
                      => para.role = "Contact"

\* the name, then twice a line with a pipe and a year: the first is the
\* Contact paragraph, the second the Entry
C20_Witness ==
    /\ Done(1)
    /\ RolesOf(doc[1]) = <<"Name", "Contact", "Entry">>
    /\ LineAt(1, 2) = LineAt(1, 3)
    /\ _is_entry_line(LineAt(1, 2))

====
